---- MODULE Spec2Model ----
(***************************************************************************)
(* A model of client/client.go of chainlink-env: the readiness checks of   *)
(* K8sClient (WaitForPodBySelectorRunning, WaitContainersReady,            *)
(* CheckReady, WaitLogMessages) and its namespace operations               *)
(* (NamespaceExists, RemoveNamespace), its pod labelling                   *)
(* (EnumerateInstances, UniqueLabels), Apply and Create, and the           *)
(* environment builder that examples/simple/env.go drives.                 *)
(*                                                                         *)
(* Time is counted in seconds.  What the cluster API answers to a call is  *)
(* an input of the step that makes the call: a pod phase, a pod list, a    *)
(* log tail or a transport error, drawn from a small set.  The namespaces  *)
(* of the cluster are kept as state, since deletion is asynchronous.       *)
(***************************************************************************)
EXTENDS Integers, Sequences, FiniteSets, TLC

\* ------------------------------------------------------------------ bounds
\* Pods a selector matches at most.
MaxPods == 2
\* Container statuses a pod reports at most.
MaxContainers == 1
\* Lines of a log tail at most.
MaxLines == 2
\* ReadyCheckData.Timeout at most, in seconds.
MaxTimeout == 10
\* Namespaces of the cluster.
MaxNamespaces == 2
\* Calls of the namespace operations in one run.
MaxCalls == 4

\* -------------------------------------------------------- program constants
\* The interval of wait.PollImmediate in waitForPodRunning, in seconds.
PodPollInterval == 2
LogPollInterval == 2
ContainerStatePollInterval == 2

\* --------------------------------------------------------------- the errors
ErrNone == "none"
Nil == "nil"
ErrApi == "transport error"
ErrNoPods == "no pods in namespace with selector"
ErrPodFailed == "pod failed"
ErrPodSucceeded == "pod succeeded, are we expecting a Job type"
ErrWaitTimeout == "timed out waiting for the condition"
ErrReadinessTimeout == "timeout waiting container readiness probes"
ErrLogsTimeout == "timeout waiting for logs"
ErrCtxDeadline == "context deadline exceeded"
ErrNotFound == "not found"

VARIABLES
    op,               \* the method of K8sClient this run calls
    pc,               \* the position in it
    now,              \* seconds since the call
    timeout,          \* ReadyCheckData.Timeout
    result,           \* the error the call returned (ErrNone: not returned)
    pods,             \* podList.Items of the initial list: pod names
    idx,              \* the pod the for loop is at
    pollStart,        \* when wait.PollImmediate was called for pods[idx]
    deadline,         \* the deadline of ctx (context.WithTimeout)
    readyList,        \* WaitContainersReady: the list of this tick
    logLinesFound,    \* WaitLogMessages: logLinesFound
    \* history, for the properties
    lastPhase,        \* the phase the latest poll of isPodRunning saw
    polls,            \* polls of isPodRunning so far
    observedRunning,  \* the pods isPodRunning saw Running
    prResult,         \* what WaitForPodBySelectorRunning returned
    wcrTicks,         \* evaluations of WaitContainersReady so far
    emptyAt,          \* when a check listed zero pods (-1: never)
    ticks,            \* WaitLogMessages: iterations of the poll loop
    matched,          \* WaitLogMessages: pods a matching line was read of
    cancelled,        \* WaitLogMessages: ctx expired during a scan
    \* the namespaces
    nsPhase,          \* namespace -> "absent" | "Active" | "Terminating"
    lastCall,         \* the latest call of a namespace operation
    prevCall,         \* the call before it
    mutated,          \* namespaces created or deleted since lastCall
    deleteRequests,   \* delete requests sent to the cluster
    calls,            \* calls made
    \* more history of the readiness checks
    apiErr,           \* the error of the cluster API call that failed
    scenario,         \* what the cluster answered fits the two-pod scenario
    tickMatched       \* WaitLogMessages: pods whose tail of this tick matched

\* EnumerateInstances and UniqueLabels
VARIABLES
    appLabels,        \* podList.Items: p.Labels["app"] of each ("": no label)
    instance,         \* the label "instance" of each listed pod, in the cluster
    instance0,        \* history: the label "instance" of each before the call
    item,             \* the pod the for loop of EnumerateInstances is at
    uniqueLabels      \* the slice UniqueLabels returned

\* Apply and Create
VARIABLES
    file,             \* the content of the file TempDebugManifest
    apply             \* of each caller: its call of Apply or Create

\* the environment builder
VARIABLES
    components,       \* the components added, in the order of the adds
    applyLog          \* the begin and the end of each apply, as they happen


vars == <<op, pc, now, timeout, result, pods, idx, pollStart, deadline,
          readyList, logLinesFound, lastPhase, polls, observedRunning,
          prResult, wcrTicks, emptyAt, ticks, matched, cancelled,
          nsPhase, lastCall, prevCall, mutated, deleteRequests, calls,
          apiErr, scenario, tickMatched,
          appLabels, instance, instance0, item, uniqueLabels,
          file, apply, components, applyLog>>

readyVars == <<pods, idx, pollStart, readyList, lastPhase, polls,
               observedRunning, prResult, wcrTicks>>
logVars == <<logLinesFound, ticks, matched, cancelled>>
nsVars == <<nsPhase, lastCall, prevCall, mutated, deleteRequests, calls>>
histVars == <<apiErr, scenario, tickMatched>>
labelVars == <<appLabels, instance, instance0, item, uniqueLabels>>
\* the variables of the other operations, which the readiness checks and the
\* namespace operations leave alone
applyVars == <<file, apply>>
envVars == <<components, applyLog>>
moreVars == <<labelVars, applyVars, envVars>>
\* the variables of the readiness checks and the namespace operations, which
\* the other operations leave alone
waitVars == <<now, timeout, deadline, emptyAt, readyVars, logVars, nsVars,
              histVars>>

Min(a, b) == IF a < b THEN a ELSE b
Max(a, b) == IF a > b THEN a ELSE b

\* --------------------------------------------------------------- the inputs
PodPhases == {"Pending", "Running", "Succeeded", "Failed", "Unknown"}
\* the timeouts up to the bound, and the 10 poll intervals of the two-pod
\* scenario
Timeouts == (1..MaxTimeout) \cup {10 * PodPollInterval}
\* pod names: the first n pods of the namespace
PodNames(n) == [i \in 1..n |-> i]
\* pod.Status.ContainerStatuses: the Ready flag of each
ContainerStatuses == UNION {[1..k -> BOOLEAN] : k \in 0..MaxContainers}
\* podList.Items of a list in WaitContainersReady
PodLists == UNION {[1..n -> ContainerStatuses] : n \in 0..MaxPods}
\* a log tail: of each line, whether it contains LogSubStr
LogTails == UNION {[1..k -> BOOLEAN] : k \in 0..MaxLines}

\* a call of a namespace operation: the namespace, whether the request met a
\* transport error, the error returned (RemoveNamespace) and the boolean
\* returned (NamespaceExists)
NoCall ==
    [op |-> "none", ns |-> 0, failed |-> FALSE, ret |-> ErrNone, exists |-> FALSE]

InitCommon ==
    /\ now = 0
    /\ result = ErrNone
    /\ pods = <<>>
    /\ idx = 0
    /\ pollStart = 0
    /\ deadline = 0
    /\ readyList = <<>>
    /\ logLinesFound = 0
    /\ lastPhase = "none"
    /\ polls = 0
    /\ observedRunning = {}
    /\ prResult = ErrNone
    /\ wcrTicks = 0
    /\ emptyAt = -1
    /\ ticks = 0
    /\ matched = {}
    /\ cancelled = FALSE
    /\ lastCall = NoCall
    /\ prevCall = NoCall
    /\ mutated = {}
    /\ deleteRequests = 0
    /\ calls = 0
    /\ apiErr = ErrNone
    /\ scenario = TRUE
    /\ tickMatched = {}

\* no call of EnumerateInstances or UniqueLabels
IdleLabels ==
    /\ appLabels = <<>>
    /\ instance = <<>>
    /\ instance0 = <<>>
    /\ item = 0
    /\ uniqueLabels = <<>>

\* Callers of Apply and Create at most.
MaxCallers == 2
Callers == 1..MaxCallers

\* a caller before its call; read is the content the external command read
NotRead == "not read"
NoApply ==
    [pc |-> "idle", verb |-> "none", manifest |-> "", wrote |-> FALSE,
     writeErr |-> FALSE, read |-> NotRead, ret |-> ErrNone,
     overlapped |-> FALSE]

\* no call of Apply or Create
IdleApply ==
    /\ file = ""
    /\ apply = [c \in Callers |-> NoApply]

\* no environment is built
IdleEnv ==
    /\ components = <<>>
    /\ applyLog = <<>>

\* none of the other operations is called
IdleMore == IdleLabels /\ IdleApply /\ IdleEnv

\* ============================================================== CheckReady

\* isPodRunning as it would be if a Failed pod were polled again
isPodRunningRetriesFailed(getErr, phase) ==
    IF getErr THEN [done |-> FALSE, err |-> ErrApi]
    ELSE CASE phase = "Running" -> [done |-> TRUE, err |-> Nil]
           [] phase = "Succeeded" -> [done |-> FALSE, err |-> ErrPodSucceeded]
           [] OTHER -> [done |-> FALSE, err |-> Nil]

\* the condition function of isPodRunning, of what Get answered
isPodRunning(getErr, phase) ==
    IF getErr THEN [done |-> FALSE, err |-> ErrApi]
    ELSE CASE phase = "Running" -> [done |-> TRUE, err |-> Nil]
           [] phase = "Failed" -> [done |-> FALSE, err |-> ErrPodFailed]
           [] phase = "Succeeded" -> [done |-> FALSE, err |-> ErrPodSucceeded]
           [] OTHER -> [done |-> FALSE, err |-> Nil]

\* wait.PollImmediate as it would be without its timeout: a condition that
\* is not done is polled again
PollImmediateForever(cond, elapsed, tmo) ==
    IF cond.err # Nil THEN cond.err
    ELSE IF cond.done THEN Nil
    ELSE "wait"

\* wait.PollImmediate as it would be if an error of the condition were
\* polled over until the timeout
PollImmediateToTimeout(cond, elapsed, tmo) ==
    IF cond.done THEN Nil
    ELSE IF elapsed >= tmo THEN ErrWaitTimeout
    ELSE "wait"

\* wait.Poll in the place of wait.PollImmediate: the condition is not
\* evaluated at the call, only from one interval after it on
PollNotImmediate(cond, elapsed, tmo) ==
    IF elapsed = 0 THEN "wait"
    ELSE IF cond.err # Nil THEN cond.err
    ELSE IF cond.done THEN Nil
    ELSE IF elapsed >= tmo THEN ErrWaitTimeout
    ELSE "wait"

\* wait.PollImmediate(interval, timeout, condition), at one evaluation of the
\* condition, `elapsed` after the call: the error it returns, or "wait"
PollImmediate(cond, elapsed, tmo) ==
    IF cond.err # Nil THEN cond.err
    ELSE IF cond.done THEN Nil
    ELSE IF elapsed >= tmo THEN ErrWaitTimeout
    ELSE "wait"

\* the values an error of a readiness check was formatted with, by the
\* expression each is: fmt.Errorf("no pods in %s with selector %s", ...) has
\* two, errors.New and wait.ErrWaitTimeout have none
ErrorArgs(err) ==
    IF err = ErrNoPods
    THEN <<"c.GetNamespace()", "c.GetReadyCheckData().Timeout">>
    ELSE <<>>

\* the expression of the selector a call lists the pods with
SelectorOf(call) ==
    IF call = "WaitLogMessages" THEN "c.GetReadyCheckData().Selector"
    ELSE "c.GetReadyCheckData().ReadinessProbeCheckSelector"

\* CheckReady as it would be if it dropped the error of the first phase
CheckReadyDropsError(err) == "wcr_select"

\* CheckReady, given what WaitForPodBySelectorRunning returned: the position
\* it goes on at
CheckReadyNext(err) == IF err # Nil THEN "done" ELSE "wcr_select"

\* WaitForPodBySelectorRunning returns err to CheckReady, which returns it or
\* calls WaitContainersReady (context.WithTimeout(Background, Timeout))
ReturnPodRunning(err) ==
    /\ prResult' = err
    /\ pc' = CheckReadyNext(err)
    /\ result' = IF CheckReadyNext(err) = "done" THEN err ELSE ErrNone
    /\ deadline' = IF CheckReadyNext(err) = "done" THEN deadline
                   ELSE now + timeout

InitReady ==
    /\ InitCommon
    /\ IdleMore
    /\ op = "CheckReady"
    /\ pc = "wfp_list"
    /\ timeout \in Timeouts
    /\ nsPhase = [n \in 1..MaxNamespaces |-> "Active"]

\* WaitForPodBySelectorRunning: ListPods fails
PodRunningListFails ==
    /\ pc = "wfp_list"
    /\ now' = now
    /\ ReturnPodRunning(ErrApi)
    /\ UNCHANGED <<op, timeout, pods, idx, pollStart, readyList, lastPhase,
                   polls, observedRunning, wcrTicks, emptyAt>>
    /\ UNCHANGED logVars /\ UNCHANGED nsVars
    /\ apiErr' = ErrApi
    /\ UNCHANGED <<scenario, tickMatched>>
    /\ UNCHANGED moreVars

\* WaitForPodBySelectorRunning: ListPods answers n pods
PodRunningList ==
    /\ pc = "wfp_list"
    /\ \E n \in 0..MaxPods :
        /\ pods' = PodNames(n)
        /\ now' = now
        /\ IF n = 0
           THEN /\ ReturnPodRunning(ErrNoPods)
                /\ emptyAt' = now
                /\ UNCHANGED <<idx, pollStart>>
           ELSE /\ pc' = "wfp_poll"
                /\ idx' = 1
                /\ pollStart' = now
                /\ UNCHANGED <<result, prResult, deadline, emptyAt>>
    /\ UNCHANGED <<op, timeout, readyList, lastPhase, polls, observedRunning,
                   wcrTicks>>
    /\ UNCHANGED logVars /\ UNCHANGED nsVars
    /\ UNCHANGED histVars
    /\ UNCHANGED moreVars

\* history: the answer to a poll of a pod fits the scenario in which every
\* pod goes from Pending to Running within one poll interval of the call
PodFitsScenario(getErr, phase, t) ==
    /\ ~getErr
    /\ phase \in {"Pending", "Running"}
    /\ t >= PodPollInterval => phase = "Running"

\* history: the list of a tick of WaitContainersReady fits the scenario in
\* which two pods match and every container status is ready from the second
\* tick on
ListFitsScenario(list, tick) ==
    /\ Len(list) = 2
    /\ tick >= 2 => \A i \in DOMAIN list : \A j \in DOMAIN list[i] : list[i][j]

\* the evaluations of isPodRunning a call makes at most: for each pod one
\* at the call of the poller, one per interval and one at the timeout
LongestTimeout == Max(MaxTimeout, 10 * PodPollInterval)
MaxPolls == MaxPods * (LongestTimeout \div PodPollInterval + 2)

\* waitForPodRunning(pods[idx]): one evaluation of isPodRunning by
\* wait.PollImmediate, and what follows it (polls is a counter of the
\* history, capped at a value the pollers do not reach)
PollPod ==
    /\ pc = "wfp_poll"
    /\ polls < MaxPolls
    /\ \E getErr \in BOOLEAN, phase \in PodPhases :
        LET cond == isPodRunning(getErr, phase)
            out == PollImmediate(cond, now - pollStart, timeout)
        IN /\ polls' = polls + 1
           /\ lastPhase' = IF getErr THEN "none" ELSE phase
           /\ apiErr' = IF getErr THEN ErrApi ELSE apiErr
           /\ scenario' = (scenario /\ PodFitsScenario(getErr, phase, now))
           /\ observedRunning' = IF cond.done THEN observedRunning \cup {idx}
                                 ELSE observedRunning
           /\ CASE out = "wait" ->
                     \* the next tick of the poller, or its timeout if earlier
                     /\ now' = Min(now + PodPollInterval, pollStart + timeout)
                     /\ UNCHANGED <<pc, result, prResult, deadline, idx, pollStart>>
                [] out = Nil /\ idx < Len(pods) ->
                     /\ idx' = idx + 1
                     /\ pollStart' = now
                     /\ UNCHANGED <<pc, result, prResult, deadline, now>>
                [] out = Nil /\ idx >= Len(pods) ->
                     /\ now' = now
                     /\ ReturnPodRunning(Nil)
                     /\ UNCHANGED <<idx, pollStart>>
                [] OTHER ->
                     /\ now' = now
                     /\ ReturnPodRunning(out)
                     /\ UNCHANGED <<idx, pollStart>>
    /\ UNCHANGED <<op, timeout, pods, readyList, wcrTicks, emptyAt>>
    /\ UNCHANGED logVars /\ UNCHANGED nsVars
    /\ UNCHANGED tickMatched
    /\ UNCHANGED moreVars

\* allReady as it would be if a pod without container statuses counted as
\* not ready
AllReadyNeedsStatuses(list) ==
    \A i \in 1..Len(list) :
        Len(list[i]) > 0 /\ \A j \in 1..Len(list[i]) : list[i][j]

\* WaitContainersReady: allReady after the loops over the pods and their
\* container statuses
AllReady(list) ==
    \A i \in 1..Len(list) : \A j \in 1..Len(list[i]) : list[i][j]

\* WaitContainersReady, one tick, of the list it got: the error it returns,
\* or "sleep"
ContainersReadyTick(list) ==
    IF Len(list) = 0 THEN ErrNoPods
    ELSE IF AllReady(list) THEN Nil
    ELSE "sleep"

\* WaitContainersReady: case <-ctx.Done()
ContainersReadyTimeout ==
    /\ pc = "wcr_select"
    /\ now >= deadline
    /\ pc' = "done"
    /\ result' = ErrReadinessTimeout
    /\ UNCHANGED <<op, now, timeout, deadline, emptyAt>>
    /\ UNCHANGED readyVars /\ UNCHANGED logVars /\ UNCHANGED nsVars
    /\ UNCHANGED histVars
    /\ UNCHANGED moreVars

\* WaitContainersReady: default, ListPods fails
ContainersReadyListFails ==
    /\ pc = "wcr_select"
    /\ now < deadline
    /\ pc' = "done"
    /\ result' = ErrApi
    /\ UNCHANGED <<op, now, timeout, deadline, emptyAt>>
    /\ UNCHANGED readyVars /\ UNCHANGED logVars /\ UNCHANGED nsVars
    /\ apiErr' = ErrApi
    /\ UNCHANGED <<scenario, tickMatched>>
    /\ UNCHANGED moreVars

\* WaitContainersReady: default, ListPods answers a list
ContainersReadyList ==
    /\ pc = "wcr_select"
    /\ now < deadline
    /\ \E list \in PodLists : readyList' = list
    /\ pc' = "wcr_eval"
    /\ UNCHANGED <<op, now, timeout, result, deadline, emptyAt, pods, idx,
                   pollStart, lastPhase, polls, observedRunning, prResult,
                   wcrTicks>>
    /\ UNCHANGED logVars /\ UNCHANGED nsVars
    /\ UNCHANGED histVars
    /\ UNCHANGED moreVars

\* WaitContainersReady: the rest of the tick, of readyList
ContainersReadyEval ==
    /\ pc = "wcr_eval"
    /\ wcrTicks' = wcrTicks + 1
    /\ scenario' = (scenario /\ ListFitsScenario(readyList, wcrTicks + 1))
    /\ LET out == ContainersReadyTick(readyList)
       IN IF out = "sleep"
          THEN /\ now' = now + ContainerStatePollInterval
               /\ pc' = "wcr_select"
               /\ readyList' = <<>>
               /\ UNCHANGED <<result, emptyAt>>
          ELSE /\ pc' = "done"
               /\ result' = out
               /\ emptyAt' = IF out = ErrNoPods THEN now ELSE emptyAt
               /\ UNCHANGED <<now, readyList>>
    /\ UNCHANGED <<op, timeout, deadline, pods, idx, pollStart, lastPhase,
                   polls, observedRunning, prResult>>
    /\ UNCHANGED logVars /\ UNCHANGED nsVars
    /\ UNCHANGED <<apiErr, tickMatched>>
    /\ UNCHANGED moreVars

NextReady ==
    \/ PodRunningListFails
    \/ PodRunningList
    \/ PollPod
    \/ ContainersReadyTimeout
    \/ ContainersReadyListFails
    \/ ContainersReadyList
    \/ ContainersReadyEval

SpecReady == InitReady /\ [][NextReady]_vars

\* ========================================================= WaitLogMessages

InitLog ==
    /\ InitCommon
    /\ IdleMore
    /\ op = "WaitLogMessages"
    /\ pc = "log_list"
    /\ timeout \in Timeouts
    /\ nsPhase = [n \in 1..MaxNamespaces |-> "Active"]

\* the lines among the first k of a tail that contain LogSubStr
\* (strings.Contains(reader.Text(), LogSubStr), counted by logLinesFound++)
RECURSIVE CountMatches(_, _)
CountMatches(tail, k) ==
    IF k = 0 THEN 0
    ELSE CountMatches(tail, k - 1) + (IF tail[k] THEN 1 ELSE 0)

\* the test that ends WaitLogMessages with success, after a pod's scan
AllLogsFound(found, nPods) == found = nPods

\* the deadline of ctx passes while a request is under way or its answer is
\* scanned: either takes less than one poll interval
CtxExpiresMeanwhile == now < deadline /\ deadline < now + LogPollInterval

\* WaitLogMessages: ListPods fails
LogListFails ==
    /\ pc = "log_list"
    /\ pc' = "done"
    /\ result' = ErrApi
    /\ UNCHANGED <<op, now, timeout, deadline, emptyAt>>
    /\ UNCHANGED readyVars /\ UNCHANGED logVars /\ UNCHANGED nsVars
    /\ apiErr' = ErrApi
    /\ UNCHANGED <<scenario, tickMatched>>
    /\ UNCHANGED moreVars

\* WaitLogMessages: ListPods answers n pods; logLinesFound := 0;
\* context.WithTimeout(Background, Timeout)
LogList ==
    /\ pc = "log_list"
    /\ \E n \in 0..MaxPods :
        /\ pods' = PodNames(n)
        /\ emptyAt' = IF n = 0 THEN now ELSE emptyAt
    /\ logLinesFound' = 0
    /\ deadline' = now + timeout
    /\ pc' = "log_select"
    /\ UNCHANGED <<op, now, timeout, result, idx, pollStart, readyList,
                   lastPhase, polls, observedRunning, prResult, wcrTicks,
                   ticks, matched, cancelled>>
    /\ UNCHANGED nsVars
    /\ UNCHANGED histVars
    /\ UNCHANGED moreVars

\* WaitLogMessages: case <-ctx.Done() of the outer select
LogTimeout ==
    /\ pc = "log_select"
    /\ now >= deadline
    /\ pc' = "done"
    /\ result' = ErrLogsTimeout
    /\ UNCHANGED <<op, now, timeout, deadline, emptyAt>>
    /\ UNCHANGED readyVars /\ UNCHANGED logVars /\ UNCHANGED nsVars
    /\ UNCHANGED histVars
    /\ UNCHANGED moreVars

\* WaitLogMessages: default of the outer select: time.Sleep(LogPollInterval),
\* then the loop over pods.Items starts
LogSleep ==
    /\ pc = "log_select"
    /\ now < deadline
    /\ now' = now + LogPollInterval
    /\ ticks' = ticks + 1
    /\ idx' = 1
    /\ pc' = IF Len(pods) = 0 THEN "log_select" ELSE "log_pod"
    /\ UNCHANGED <<op, timeout, result, deadline, emptyAt, pods, pollStart,
                   readyList, lastPhase, polls, observedRunning, prResult,
                   wcrTicks, logLinesFound, matched, cancelled>>
    /\ UNCHANGED nsVars
    /\ tickMatched' = {}
    /\ UNCHANGED <<apiErr, scenario>>
    /\ UNCHANGED moreVars

\* WaitLogMessages: GetLogs(pods[idx]).Stream(ctx) fails: a transport error,
\* or ctx is past its deadline or passes it during the request
LogStreamFails ==
    /\ pc = "log_pod"
    /\ \/ /\ now < deadline
          /\ result' = ErrApi
          /\ now' = now
       \/ /\ now >= deadline \/ CtxExpiresMeanwhile
          /\ result' = ErrCtxDeadline
          /\ now' = Max(now, deadline)
    /\ pc' = "done"
    /\ UNCHANGED <<op, timeout, deadline, emptyAt>>
    /\ UNCHANGED readyVars /\ UNCHANGED logVars /\ UNCHANGED nsVars
    /\ apiErr' = result'
    /\ UNCHANGED <<scenario, tickMatched>>
    /\ UNCHANGED moreVars

\* WaitLogMessages: the stream of pods[idx] opens and is scanned to its end
\* (late: the deadline passes meanwhile), then logLinesFound is compared with
\* len(pods.Items)
LogScanPod ==
    /\ pc = "log_pod"
    /\ now < deadline
    /\ \E late \in BOOLEAN :
        /\ late => CtxExpiresMeanwhile
        /\ now' = IF late THEN deadline ELSE now
    /\ \E tail \in LogTails :
        LET n == CountMatches(tail, Len(tail))
        IN /\ logLinesFound' = logLinesFound + n
           /\ matched' = IF n > 0 THEN matched \cup {idx} ELSE matched
           /\ tickMatched' = IF n > 0 THEN tickMatched \cup {idx}
                                      ELSE tickMatched
           /\ IF AllLogsFound(logLinesFound + n, Len(pods))
              THEN /\ pc' = "done"
                   /\ result' = Nil
                   /\ idx' = idx
              ELSE /\ pc' = IF idx < Len(pods) THEN "log_pod" ELSE "log_select"
                   /\ idx' = IF idx < Len(pods) THEN idx + 1 ELSE idx
                   /\ result' = result
    /\ UNCHANGED <<op, timeout, deadline, emptyAt, pods, pollStart,
                   readyList, lastPhase, polls, observedRunning, prResult,
                   wcrTicks, ticks, cancelled>>
    /\ UNCHANGED nsVars
    /\ UNCHANGED <<apiErr, scenario>>
    /\ UNCHANGED moreVars

\* WaitLogMessages: the stream of pods[idx] opens, k of its lines are scanned,
\* and at the next line the inner select finds ctx done
LogScanCancelled ==
    /\ pc = "log_pod"
    /\ CtxExpiresMeanwhile
    /\ \E tail \in LogTails : \E k \in 0..(Len(tail) - 1) :
        LET n == CountMatches(tail, k)
        IN /\ logLinesFound' = logLinesFound + n
           /\ matched' = IF n > 0 THEN matched \cup {idx} ELSE matched
           /\ tickMatched' = IF n > 0 THEN tickMatched \cup {idx}
                                      ELSE tickMatched
    /\ now' = deadline
    /\ cancelled' = TRUE
    /\ pc' = "done"
    /\ result' = Nil
    /\ UNCHANGED <<op, timeout, deadline, emptyAt, ticks>>
    /\ UNCHANGED readyVars /\ UNCHANGED nsVars
    /\ UNCHANGED <<apiErr, scenario>>
    /\ UNCHANGED moreVars

NextLog ==
    \/ LogListFails
    \/ LogList
    \/ LogTimeout
    \/ LogSleep
    \/ LogStreamFails
    \/ LogScanPod
    \/ LogScanCancelled

SpecLog == InitLog /\ [][NextLog]_vars

\* ============================================================== namespaces

NsPhases == {"absent", "Active", "Terminating"}
Namespaces == 1..MaxNamespaces

InitNs ==
    /\ InitCommon
    /\ IdleMore
    /\ op = "namespaces"
    /\ pc = "ns_idle"
    /\ timeout = 1
    /\ nsPhase \in [Namespaces -> {"absent", "Active"}]

\* Namespaces().Get: an error when the request fails or the namespace is not
\* there; a namespace that is terminating is still got
GetNamespaceErr(failed, phase) == failed \/ phase = "absent"

\* NamespaceExists as it would be with the test of err inverted
NamespaceExistsInverted(getErr) == IF getErr THEN TRUE ELSE FALSE

\* NamespaceExists, of whether Get returned an error
NamespaceExistsResult(getErr) == IF getErr THEN FALSE ELSE TRUE

\* RemoveNamespace as it would be if it dropped the error of Delete
RemoveNamespaceDropsError(deleteErr) == Nil

\* RemoveNamespace, of the error Delete returned (Nil: none)
RemoveNamespaceResult(deleteErr) == IF deleteErr # Nil THEN deleteErr ELSE Nil

\* Namespaces().Delete: the error of the request
DeleteNamespaceErr(failed, phase) ==
    IF failed THEN ErrApi
    ELSE IF phase = "absent" THEN ErrNotFound
    ELSE Nil

\* NamespaceExists(ns)
NamespaceExists ==
    /\ pc = "ns_idle"
    /\ calls < MaxCalls
    /\ \E ns \in Namespaces, failed \in BOOLEAN :
        lastCall' = [op |-> "NamespaceExists", ns |-> ns, failed |-> failed,
                     ret |-> ErrNone,
                     exists |-> NamespaceExistsResult(
                                    GetNamespaceErr(failed, nsPhase[ns]))]
    /\ prevCall' = lastCall
    /\ mutated' = {}
    /\ calls' = calls + 1
    /\ UNCHANGED <<op, pc, now, timeout, result, deadline, emptyAt, nsPhase,
                   deleteRequests>>
    /\ UNCHANGED readyVars /\ UNCHANGED logVars
    /\ UNCHANGED histVars
    /\ UNCHANGED moreVars

\* RemoveNamespace(ns): one Delete request; the cluster marks the namespace
\* as terminating and removes it later
RemoveNamespace ==
    /\ pc = "ns_idle"
    /\ calls < MaxCalls
    /\ \E ns \in Namespaces, failed \in BOOLEAN :
        LET err == DeleteNamespaceErr(failed, nsPhase[ns])
        IN /\ lastCall' = [op |-> "RemoveNamespace", ns |-> ns,
                           failed |-> failed,
                           ret |-> RemoveNamespaceResult(err),
                           exists |-> FALSE]
           /\ nsPhase' = IF err = Nil
                         THEN [nsPhase EXCEPT ![ns] = "Terminating"]
                         ELSE nsPhase
    /\ deleteRequests' = deleteRequests + 1
    /\ prevCall' = lastCall
    /\ mutated' = {}
    /\ calls' = calls + 1
    /\ UNCHANGED <<op, pc, now, timeout, result, deadline, emptyAt>>
    /\ UNCHANGED readyVars /\ UNCHANGED logVars
    /\ UNCHANGED histVars
    /\ UNCHANGED moreVars

\* the cluster ends the deletion of a terminating namespace
NamespaceTerminated ==
    /\ pc = "ns_idle"
    /\ \E ns \in Namespaces :
        /\ nsPhase[ns] = "Terminating"
        /\ nsPhase' = [nsPhase EXCEPT ![ns] = "absent"]
        /\ mutated' = mutated \cup {ns}
    /\ UNCHANGED <<op, pc, now, timeout, result, deadline, emptyAt, lastCall,
                   prevCall, deleteRequests, calls>>
    /\ UNCHANGED readyVars /\ UNCHANGED logVars
    /\ UNCHANGED histVars
    /\ UNCHANGED moreVars

\* a namespace is created in the cluster
NamespaceCreated ==
    /\ pc = "ns_idle"
    /\ \E ns \in Namespaces :
        /\ nsPhase[ns] = "absent"
        /\ nsPhase' = [nsPhase EXCEPT ![ns] = "Active"]
        /\ mutated' = mutated \cup {ns}
    /\ UNCHANGED <<op, pc, now, timeout, result, deadline, emptyAt, lastCall,
                   prevCall, deleteRequests, calls>>
    /\ UNCHANGED readyVars /\ UNCHANGED logVars
    /\ UNCHANGED histVars
    /\ UNCHANGED moreVars

NextNs ==
    \/ NamespaceExists
    \/ RemoveNamespace
    \/ NamespaceTerminated
    \/ NamespaceCreated

SpecNs == InitNs /\ [][NextNs]_vars

\* ===================================== EnumerateInstances and UniqueLabels

\* p.Labels["app"] of a pod: a label, or "" when the pod has none
AppLabelValues == {"", "geth", "chainlink"}

\* a pod without the label "instance"
NoLabel == "none"

Digits == <<"0", "1", "2", "3", "4", "5", "6", "7", "8", "9">>

\* strconv.Itoa of an integer that is not negative: its decimal digits
RECURSIVE Itoa(_)
Itoa(n) ==
    IF n < 10 THEN Digits[n + 1]
    ELSE Itoa(n \div 10) \o Digits[(n % 10) + 1]

\* the label "instance" a pod may carry before the call: none, or one an
\* earlier enumeration gave
InstanceValues == {NoLabel} \cup {Itoa(i) : i \in 0..(MaxPods - 1)}

InitLabels ==
    /\ InitCommon
    /\ timeout = 1
    /\ nsPhase = [n \in 1..MaxNamespaces |-> "Active"]
    /\ op \in {"EnumerateInstances", "UniqueLabels"}
    /\ pc = "label_list"
    /\ \E n \in 0..MaxPods :
        /\ appLabels \in [1..n -> AppLabelValues]
        /\ instance \in [1..n -> InstanceValues]
    /\ instance0 = instance
    /\ item = 0
    /\ uniqueLabels = <<>>
    /\ IdleApply /\ IdleEnv

\* the value EnumerateInstances would give with ids counted from one
InstanceLabelFromOne(id) == Itoa(id + 1)

\* EnumerateInstances: the value of the label of the pod at index id of
\* podList.Items (for id, pod := range ... strconv.Itoa(id))
InstanceLabel(id) == Itoa(id)

\* AddLabel: the JSON patch "add" of /metadata/labels/<key> sets the label,
\* over a value the pod had
AddLabel(labels, i, value) == [labels EXCEPT ![i] = value]

\* UniqueLabels: the for loop over podList.Items from item k on; isUnique is
\* the set of keys of the map, which no statement stores into
RECURSIVE UniqueLabelsLoop(_, _, _, _)
UniqueLabelsLoop(items, k, unique, isUnique) ==
    IF k > Len(items) THEN unique
    ELSE UniqueLabelsLoop(items, k + 1,
                          IF items[k] \notin isUnique
                          THEN Append(unique, items[k])
                          ELSE unique,
                          isUnique)

\* EnumerateInstances, UniqueLabels: Pods(namespace).List fails
LabelListFails ==
    /\ pc = "label_list"
    /\ result' = ErrApi
    /\ pc' = "done"
    /\ UNCHANGED <<op, nsPhase>> /\ UNCHANGED labelVars /\ UNCHANGED waitVars
    /\ UNCHANGED applyVars /\ UNCHANGED envVars

\* EnumerateInstances: the list succeeds, the for loop starts
EnumerateList ==
    /\ op = "EnumerateInstances"
    /\ pc = "label_list"
    /\ item' = 1
    /\ pc' = "enum_loop"
    /\ UNCHANGED <<op, result, nsPhase, appLabels, instance, instance0,
                   uniqueLabels>>
    /\ UNCHANGED waitVars
    /\ UNCHANGED applyVars /\ UNCHANGED envVars

\* EnumerateInstances: AddLabel of the pod the loop is at; a patch that
\* fails leaves the pod as it was and ends the call with the error
EnumeratePatch ==
    /\ pc = "enum_loop"
    /\ item <= Len(instance)
    /\ \E patchErr \in BOOLEAN :
        IF patchErr
        THEN /\ result' = ErrApi
             /\ pc' = "done"
             /\ UNCHANGED <<instance, item>>
        ELSE /\ instance' = AddLabel(instance, item, InstanceLabel(item - 1))
             /\ item' = item + 1
             /\ UNCHANGED <<result, pc>>
    /\ UNCHANGED <<op, nsPhase, appLabels, instance0, uniqueLabels>>
    /\ UNCHANGED waitVars
    /\ UNCHANGED applyVars /\ UNCHANGED envVars

\* EnumerateInstances: the loop is over, return nil
EnumerateReturn ==
    /\ pc = "enum_loop"
    /\ item > Len(instance)
    /\ result' = Nil
    /\ pc' = "done"
    /\ UNCHANGED <<op, nsPhase>> /\ UNCHANGED labelVars /\ UNCHANGED waitVars
    /\ UNCHANGED applyVars /\ UNCHANGED envVars

\* UniqueLabels: the list succeeds, the loop runs and the slice is returned
UniqueLabelsList ==
    /\ op = "UniqueLabels"
    /\ pc = "label_list"
    /\ uniqueLabels' = UniqueLabelsLoop(appLabels, 1, <<>>, {})
    /\ result' = Nil
    /\ pc' = "done"
    /\ UNCHANGED <<op, nsPhase, appLabels, instance, instance0, item>>
    /\ UNCHANGED waitVars
    /\ UNCHANGED applyVars /\ UNCHANGED envVars

NextLabels ==
    \/ LabelListFails
    \/ EnumerateList
    \/ EnumeratePatch
    \/ EnumerateReturn
    \/ UniqueLabelsList

SpecLabels == InitLabels /\ [][NextLabels]_vars

\* ======================================================== Apply and Create

ErrWrite == "write error"
ErrExec == "exit status 1"

\* the manifests the callers pass
Manifests == {"kind: A", "kind: B"}

InitApply ==
    /\ InitCommon
    /\ timeout = 1
    /\ nsPhase = [n \in 1..MaxNamespaces |-> "Active"]
    /\ op = "Apply"
    /\ pc = "callers"
    /\ IdleLabels /\ IdleApply /\ IdleEnv

\* a call that has started and not returned
InProgress(a) == a.pc \in {"open", "write", "exec"}

\* Apply as it would be if it ran the command whatever WriteFile returned
AfterWriteFileIgnoresError(err) == "exec"

\* Apply, Create: where the call goes on after os.WriteFile returned err
AfterWriteFile(err) == IF err # Nil THEN "done" ELSE "exec"

\* a caller calls Apply(manifest) or Create(manifest); it overlaps with the
\* calls in progress
ApplyCall(c) ==
    /\ pc = "callers"
    /\ apply[c].pc = "idle"
    /\ \E verb \in {"apply", "create"}, manifest \in Manifests :
        apply' = [d \in Callers |->
            IF d = c
            THEN [apply[c] EXCEPT !.pc = "open", !.verb = verb,
                                  !.manifest = manifest,
                                  !.overlapped =
                                      \E e \in Callers : InProgress(apply[e])]
            ELSE IF InProgress(apply[d])
                 THEN [apply[d] EXCEPT !.overlapped = TRUE]
                 ELSE apply[d]]
    /\ UNCHANGED <<op, pc, result, nsPhase, file>>
    /\ UNCHANGED waitVars /\ UNCHANGED labelVars /\ UNCHANGED envVars

\* os.WriteFile(TempDebugManifest, ...): the file is opened and truncated,
\* or the open fails and leaves it as it was
WriteFileOpen(c) ==
    /\ pc = "callers"
    /\ apply[c].pc = "open"
    /\ \E openErr \in BOOLEAN :
        IF openErr
        THEN /\ apply' = [apply EXCEPT ![c].pc = AfterWriteFile(ErrWrite),
                                       ![c].writeErr = TRUE,
                                       ![c].ret = ErrWrite]
             /\ file' = file
        ELSE /\ apply' = [apply EXCEPT ![c].pc = "write"]
             /\ file' = ""
    /\ UNCHANGED <<op, pc, result, nsPhase>>
    /\ UNCHANGED waitVars /\ UNCHANGED labelVars /\ UNCHANGED envVars

\* os.WriteFile(TempDebugManifest, []byte(manifest), ...): the manifest is
\* written, or the write fails and leaves the file as it is
WriteFileData(c) ==
    /\ pc = "callers"
    /\ apply[c].pc = "write"
    /\ \E writeErr \in BOOLEAN :
        IF writeErr
        THEN /\ apply' = [apply EXCEPT ![c].pc = AfterWriteFile(ErrWrite),
                                       ![c].writeErr = TRUE,
                                       ![c].ret = ErrWrite]
             /\ file' = file
        ELSE /\ apply' = [apply EXCEPT ![c].pc = AfterWriteFile(Nil),
                                       ![c].wrote = TRUE]
             /\ file' = apply[c].manifest
    /\ UNCHANGED <<op, pc, result, nsPhase>>
    /\ UNCHANGED waitVars /\ UNCHANGED labelVars /\ UNCHANGED envVars

\* ExecCmd("kubectl apply|create -f tmp-manifest.yaml"): the command reads
\* the file as it is now, and the call returns what the command returned
ExecCmd(c) ==
    /\ pc = "callers"
    /\ apply[c].pc = "exec"
    /\ \E err \in {Nil, ErrExec} :
        apply' = [apply EXCEPT ![c].pc = "done",
                               ![c].read = file,
                               ![c].ret = err]
    /\ UNCHANGED <<op, pc, result, nsPhase, file>>
    /\ UNCHANGED waitVars /\ UNCHANGED labelVars /\ UNCHANGED envVars

NextApply ==
    \E c \in Callers :
        \/ ApplyCall(c)
        \/ WriteFileOpen(c)
        \/ WriteFileData(c)
        \/ ExecCmd(c)

SpecApply == InitApply /\ [][NextApply]_vars

\* ================================================= the environment builder
\* Of package environment only the call in examples/simple/env.go is at
\* hand; the builder is modelled from its contract: AddHelm appends
\* a component and applies nothing, Run makes the namespace and then applies
\* the components one after the other, in the order of the adds, and returns
\* the first error.

\* Components of an environment at most (env.go adds three).
MaxComponents == 3

\* the charts env.go adds
Charts == {"ethereum", "chainlink-0", "chainlink-1"}

InitEnv ==
    /\ InitCommon
    /\ timeout = 1
    /\ nsPhase = [n \in 1..MaxNamespaces |-> "Active"]
    /\ op = "environment"
    /\ pc = "env_build"
    /\ IdleLabels /\ IdleApply /\ IdleEnv

\* the applies of a run that have returned
AppliesDone == Len(applyLog) \div 2

\* Run as it would be if it applied the components last added first
NextComponentLastFirst(n, done) == n - done

\* Run: the component it applies next, of n, after `done` applies
NextComponent(n, done) == done + 1

\* AddHelm(chart): the component is appended, nothing is applied
AddHelm ==
    /\ pc = "env_build"
    /\ Len(components) < MaxComponents
    /\ \E chart \in Charts : components' = Append(components, chart)
    /\ UNCHANGED <<op, pc, result, nsPhase, applyLog>>
    /\ UNCHANGED waitVars /\ UNCHANGED labelVars /\ UNCHANGED applyVars

\* Run: the namespace is made, or Run returns the error
Run ==
    /\ pc = "env_build"
    /\ \E err \in {Nil, ErrApi} :
        IF err # Nil
        THEN result' = err /\ pc' = "done"
        ELSE result' = result /\ pc' = "env_next"
    /\ UNCHANGED <<op, nsPhase>> /\ UNCHANGED envVars
    /\ UNCHANGED waitVars /\ UNCHANGED labelVars /\ UNCHANGED applyVars

\* Run: the apply of the next component begins
RunApplyBegins ==
    /\ pc = "env_next"
    /\ AppliesDone < Len(components)
    /\ applyLog' = Append(applyLog,
           [ev |-> "begin",
            component |->
                components[NextComponent(Len(components), AppliesDone)]])
    /\ pc' = "env_apply"
    /\ UNCHANGED <<op, result, nsPhase, components>>
    /\ UNCHANGED waitVars /\ UNCHANGED labelVars /\ UNCHANGED applyVars

\* Run: the apply in progress returns; its error ends Run
RunApplyEnds ==
    /\ pc = "env_apply"
    /\ applyLog' = Append(applyLog,
           [ev |-> "end", component |-> applyLog[Len(applyLog)].component])
    /\ \E err \in {Nil, ErrApi} :
        IF err # Nil
        THEN result' = err /\ pc' = "done"
        ELSE result' = result /\ pc' = "env_next"
    /\ UNCHANGED <<op, nsPhase, components>>
    /\ UNCHANGED waitVars /\ UNCHANGED labelVars /\ UNCHANGED applyVars

\* Run: every component is applied, Run returns nil
RunReturns ==
    /\ pc = "env_next"
    /\ AppliesDone = Len(components)
    /\ result' = Nil
    /\ pc' = "done"
    /\ UNCHANGED <<op, nsPhase>> /\ UNCHANGED envVars
    /\ UNCHANGED waitVars /\ UNCHANGED labelVars /\ UNCHANGED applyVars

NextEnv ==
    \/ AddHelm
    \/ Run
    \/ RunApplyBegins
    \/ RunApplyEnds
    \/ RunReturns

SpecEnv == InitEnv /\ [][NextEnv]_vars

\* ================================================ the waits, kept running
\* The goroutine that called CheckReady or WaitLogMessages goes on running:
\* a request to the cluster returns, a sleep ends, a select takes a branch.

\* the calls with a timeout up to the bound
InitWait == (InitReady \/ InitLog) /\ timeout <= MaxTimeout
NextWait == NextReady \/ NextLog
SpecWaitFair == InitWait /\ [][NextWait]_vars /\ WF_vars(NextWait)

\* ====================================================== every call, one run

Init == InitReady \/ InitLog \/ InitNs \/ InitLabels \/ InitApply \/ InitEnv
Next == NextReady \/ NextLog \/ NextNs \/ NextLabels \/ NextApply \/ NextEnv
Spec == Init /\ [][Next]_vars

\* ================================================================ properties

AllPods == 1..Len(pods)
TimeoutErrors == {ErrWaitTimeout, ErrReadinessTimeout, ErrLogsTimeout, ErrCtxDeadline}

\* C1: CheckReady is in WaitContainersReady only when the initial list was
\* not empty and each of its pods was seen Running by the Pod-Running phase;
\* once that phase has returned an error, CheckReady has returned that error
\* and WaitContainersReady was not started (no tick of it took place).
C1_ContainersAfterAllRunning ==
    /\ (pc \in {"wcr_select", "wcr_eval"} \/ wcrTicks > 0) =>
           /\ Len(pods) > 0
           /\ \A i \in AllPods : i \in observedRunning
    /\ (prResult \notin {ErrNone, Nil}) =>
           /\ pc = "done"
           /\ result = prResult
           /\ wcrTicks = 0
           /\ readyList = <<>>

\* C1, witness: WaitContainersReady evaluates a list after two pods were
\* seen Running, the second after a poll that did not see it Running.
C1_Witness ==
    /\ op = "CheckReady"
    /\ pc = "wcr_eval"
    /\ Len(pods) = 2
    /\ observedRunning = {1, 2}
    /\ polls > 2

\* C2: whenever a readiness check (Pod-Running, Container-Ready or
\* Log-Substring) has listed zero pods, it has returned the empty-match error
\* at that same evaluation, with no time spent waiting.
C2_EmptyMatchFailsFast ==
    emptyAt # -1 => (pc = "done" /\ result = ErrNoPods /\ now = emptyAt)

\* C3: a poll of the Pod-Running check that sees the pod Failed or Succeeded
\* ends the check in that step with the terminal error, and after a terminal
\* error no poll takes place and the result does not change.
C3_TerminalPhaseStopsPolling ==
    [][ /\ (polls' = polls + 1 /\ lastPhase' \in {"Failed", "Succeeded"}) =>
              /\ pc' = "done"
              /\ result' = (IF lastPhase' = "Failed" THEN ErrPodFailed
                                                      ELSE ErrPodSucceeded)
              /\ idx' = idx
        /\ (result \in {ErrPodFailed, ErrPodSucceeded}) =>
              (polls' = polls /\ result' = result /\ pc' = pc) ]_vars

\* C3, witness: the first of two pods was seen Failed after an earlier poll
\* of it; the check is over and the second pod was not polled.
C3_Witness ==
    /\ result = ErrPodFailed
    /\ pc = "done"
    /\ Len(pods) = 2
    /\ idx = 1
    /\ polls = 2
    /\ lastPhase = "Failed"

\* C4: CheckReady returns at most Timeout, plus one poll interval, after it
\* was called.
C4_SingleDeadline ==
    (op = "CheckReady" /\ pc = "done") =>
        now <= timeout + ContainerStatePollInterval

\* C5: WaitLogMessages returns success, other than by the cancellation of
\* its context, only if a line containing the substring was read from the log
\* of every listed pod.
C5_SuccessNeedsEveryPod ==
    (op = "WaitLogMessages" /\ result = Nil /\ ~cancelled) =>
        matched = AllPods

\* C6: when WaitLogMessages has returned at or after its deadline, without
\* the count of matches saying that every pod has matched, it has returned
\* a timeout error, never success.
C6_DeadlineGivesTimeoutError ==
    (/\ op = "WaitLogMessages"
     /\ pc = "done"
     /\ deadline > 0
     /\ now >= deadline
     /\ matched # AllPods
     /\ logLinesFound # Len(pods)) =>
        result \in TimeoutErrors

\* C7: WaitContainersReady evaluates only a list it has just got; at a tick
\* whose list is not empty it returns success exactly when every container
\* status of every pod of the list is ready (a pod without statuses does not
\* count), and otherwise it sleeps one poll interval and polls again.
C7_ReadyExactlyWhenAllReady ==
    [][ /\ (wcrTicks' = wcrTicks + 1) => pc = "wcr_eval"
        /\ (pc' = "wcr_select" /\ wcrTicks' > 0) => readyList' = <<>>
        /\ (pc = "wcr_eval" /\ wcrTicks' = wcrTicks + 1 /\ Len(readyList) > 0) =>
              LET notReady == \E i \in DOMAIN readyList :
                                 \E j \in DOMAIN readyList[i] :
                                     readyList[i][j] = FALSE
              IN /\ (result' = Nil) <=> ~notReady
                 /\ ~notReady => pc' = "done"
                 /\ notReady => /\ pc' = "wcr_select"
                                /\ result' = ErrNone
                                /\ now' = now + ContainerStatePollInterval ]_vars

\* C7, witness: success at a later tick, on a list of two pods of which one
\* reports no container status.
C7_Witness ==
    /\ op = "CheckReady"
    /\ pc = "done"
    /\ result = Nil
    /\ wcrTicks >= 2
    /\ Len(readyList) = 2
    /\ \E i \in DOMAIN readyList : Len(readyList[i]) = 0
    /\ \E i \in DOMAIN readyList : Len(readyList[i]) > 0

\* C8: WaitLogMessages over 2 pods with a timeout of 5 poll intervals, where
\* a pod's log never contained the substring and no request met a transport
\* error, returns a timeout error after exactly 5 iterations of its loop.
C8_TimeoutAfterFiveTicks ==
    (/\ op = "WaitLogMessages"
     /\ pc = "done"
     /\ Len(pods) = 2
     /\ timeout = 5 * LogPollInterval
     /\ matched # AllPods
     /\ result # ErrApi) =>
        (result \in TimeoutErrors /\ ticks = 5)

\* a step that is a call of NamespaceExists following a call of it for the
\* same namespace, with no namespace created or deleted in between
SecondNamespaceExists ==
    /\ calls' = calls + 1
    /\ lastCall'.op = "NamespaceExists"
    /\ lastCall.op = "NamespaceExists"
    /\ lastCall'.ns = lastCall.ns
    /\ mutated = {}

\* C9, as stated: two consecutive calls of NamespaceExists for the same
\* namespace, with no namespace created or deleted in between, return the
\* same boolean.
C9_Idempotent ==
    [][ SecondNamespaceExists => lastCall'.exists = lastCall.exists ]_vars

\* C9, amended: a call of NamespaceExists whose request meets a transport
\* error returns false; two consecutive calls for the same namespace, with no
\* namespace created or deleted in between and no transport error in either,
\* return the same boolean, which says whether the namespace is there.
C9_IdempotentWithoutTransportError ==
    [][ /\ (calls' = calls + 1 /\ lastCall'.op = "NamespaceExists"
                /\ lastCall'.failed) => lastCall'.exists = FALSE
        /\ (SecondNamespaceExists /\ ~lastCall.failed /\ ~lastCall'.failed) =>
              /\ lastCall'.exists = lastCall.exists
              /\ lastCall'.exists = (nsPhase[lastCall'.ns] # "absent") ]_vars

\* C9, witness: two consecutive calls for a namespace that is there, neither
\* with a transport error, both returning true.
C9_Witness ==
    /\ lastCall.op = "NamespaceExists"
    /\ prevCall.op = "NamespaceExists"
    /\ lastCall.ns = prevCall.ns
    /\ mutated = {}
    /\ ~lastCall.failed /\ ~prevCall.failed
    /\ lastCall.exists /\ prevCall.exists

\* C10: a call of RemoveNamespace sends exactly one delete request; if the
\* request fails the call returns its error and no namespace changes; if it
\* succeeds the call returns nil while the namespace is still there,
\* terminating, and no other namespace changes.
C10_RemoveReturnsAtOnce ==
    [][ (calls' = calls + 1 /\ lastCall'.op = "RemoveNamespace") =>
          LET ns == lastCall'.ns
          IN /\ deleteRequests' = deleteRequests + 1
             /\ IF lastCall'.failed \/ nsPhase[ns] = "absent"
                THEN /\ lastCall'.ret =
                          (IF lastCall'.failed THEN ErrApi ELSE ErrNotFound)
                     /\ nsPhase' = nsPhase
                ELSE /\ lastCall'.ret = Nil
                     /\ nsPhase'[ns] = "Terminating"
                     /\ \A m \in Namespaces \ {ns} : nsPhase'[m] = nsPhase[m] ]_vars

\* C10, witness: RemoveNamespace returned nil, and the call of
\* NamespaceExists for the same namespace that followed returned true.
C10_Witness ==
    /\ prevCall.op = "RemoveNamespace"
    /\ prevCall.ret = Nil
    /\ lastCall.op = "NamespaceExists"
    /\ lastCall.ns = prevCall.ns
    /\ lastCall.exists
    /\ nsPhase[lastCall.ns] = "Terminating"
    /\ deleteRequests = 1
\* the elements of a sequence
Range(q) == {q[i] : i \in DOMAIN q}

\* C11: when EnumerateInstances has returned nil, the pods of the list carry
\* the labels "0", "1", ... in list order, which are pairwise distinct; when
\* it has returned an error with the loop at pod k (item), the pods before k
\* carry their new label and the pods from k on carry the label they had.
C11_InstanceLabelsInListOrder ==
    (op = "EnumerateInstances" /\ pc = "done") =>
        /\ result = Nil =>
               /\ \A i \in DOMAIN instance : instance[i] = Itoa(i - 1)
               /\ \A i, j \in DOMAIN instance :
                      i # j => instance[i] # instance[j]
               /\ Len(instance) >= 2 => instance[1] = "0" /\ instance[2] = "1"
        /\ result # Nil =>
               /\ result = ErrApi
               /\ \A i \in DOMAIN instance :
                      IF i < item THEN instance[i] = Itoa(i - 1)
                      ELSE instance[i] = instance0[i]

\* two pods that carried other labels are enumerated
C11_Witness ==
    /\ op = "EnumerateInstances" /\ pc = "done" /\ result = Nil
    /\ Len(instance) = 2
    /\ instance0[1] = "1" /\ instance0[2] = NoLabel

\* C19: the slice UniqueLabels returns has no label twice, holds the app
\* label of every listed pod, and is in the order of first occurrence.
C19_EachLabelOnce ==
    (op = "UniqueLabels" /\ pc = "done" /\ result = Nil) =>
        /\ \A i, j \in DOMAIN uniqueLabels :
               i # j => uniqueLabels[i] # uniqueLabels[j]
        /\ Range(uniqueLabels) = Range(appLabels)
        /\ \A i, j \in DOMAIN uniqueLabels :
               i < j => \E k \in DOMAIN appLabels :
                          /\ appLabels[k] = uniqueLabels[i]
                          /\ \A l \in 1..k : appLabels[l] # uniqueLabels[j]

\* C12: CheckReady with a timeout of 10 poll intervals, over two pods that
\* are Running from one poll interval after the call on and whose container
\* statuses are ready from the second tick of WaitContainersReady on, with no
\* API call failing: it has returned nil by the third poll tick (the ticks
\* are at 0, 1 and 2 poll intervals after the call), and it is never past
\* that tick or past the second tick of WaitContainersReady without having
\* returned.
C12_TwoPodsReadyWithinThreeTicks ==
    (/\ op = "CheckReady"
     /\ timeout = 10 * PodPollInterval
     /\ Len(pods) = 2
     /\ scenario
     /\ apiErr = ErrNone) =>
        /\ now <= (3 - 1) * PodPollInterval
        /\ wcrTicks <= 2
        /\ wcrTicks = 2 => pc = "done"
        /\ pc = "done" => result = Nil

\* the slowest run of the scenario: the first pod is Pending at the call,
\* the containers are not ready at the first tick, and CheckReady returns nil
\* at the third poll tick
C12_Witness ==
    /\ op = "CheckReady" /\ timeout = 10 * PodPollInterval
    /\ Len(pods) = 2 /\ scenario /\ apiErr = ErrNone
    /\ pc = "done" /\ result = Nil
    /\ polls = 3 /\ wcrTicks = 2
    /\ now = 2 * PodPollInterval

\* C14: when the scan of a tick of WaitLogMessages has ended before the
\* deadline and the tail of every listed pod held the substring in at least
\* one line, WaitLogMessages has returned nil, whatever the number of the
\* matching lines and whatever earlier ticks counted.
C14_SuccessWhenEveryTailMatches ==
    (/\ op = "WaitLogMessages"
     /\ Len(pods) > 0
     /\ tickMatched = AllPods
     /\ now < deadline) =>
        pc = "done" /\ result = Nil

\* C15: once a cluster API call of a readiness check has failed, the check
\* has returned, with the error of that call and no other; when the call
\* was one of the Pod-Running phase, CheckReady has returned it without a
\* tick of WaitContainersReady.
C15_ApiErrorEndsTheCheck ==
    apiErr # ErrNone =>
        /\ pc = "done"
        /\ result = apiErr
        /\ (op = "CheckReady" /\ prResult # Nil) =>
               /\ prResult = apiErr
               /\ wcrTicks = 0
               /\ readyList = <<>>

\* the get of the second pod fails after the first pod was seen Running, well
\* before the timeout
C15_Witness ==
    /\ op = "CheckReady" /\ apiErr = ErrApi
    /\ Len(pods) = 2 /\ idx = 2 /\ 1 \in observedRunning
    /\ now < timeout
    /\ pc = "done" /\ result = ErrApi

\* C16: the timeout error and the empty-match error a readiness check
\* returns were formatted with the namespace and with the selector of the
\* check.
C16_ErrorsNameNamespaceAndSelector ==
    (pc = "done" /\ result \in TimeoutErrors \cup {ErrNoPods}) =>
        {"c.GetNamespace()", SelectorOf(op)} \subseteq Range(ErrorArgs(result))

\* C17: the external command of a call of Apply or Create has run only after
\* the call wrote its manifest to the file; a call whose write failed has
\* returned the write error and ran no command; and the command of a call
\* that overlapped with no other call read exactly the manifest of the call.
C17_CommandReadsOwnManifest ==
    op = "Apply" =>
        \A c \in Callers :
            /\ (apply[c].pc = "exec" \/ apply[c].read # NotRead) =>
                   apply[c].wrote /\ ~apply[c].writeErr
            /\ apply[c].writeErr =>
                   /\ apply[c].pc = "done"
                   /\ apply[c].ret = ErrWrite
                   /\ apply[c].read = NotRead
            /\ (apply[c].read # NotRead /\ ~apply[c].overlapped) =>
                   apply[c].read = apply[c].manifest

\* two calls overlap and the command of one reads the manifest of the other
C17_Witness ==
    /\ op = "Apply"
    /\ \E c, d \in Callers :
        /\ c # d
        /\ apply[c].overlapped /\ apply[d].overlapped
        /\ apply[c].manifest # apply[d].manifest
        /\ apply[c].pc = "done"
        /\ apply[c].read = apply[d].manifest

\* C13: nothing is applied before Run; the applies of Run begin and end in
\* turn, the i-th of them is of the i-th component added, so each apply has
\* ended before the next begins; and Run returns nil only after the apply
\* of every component.
C13_AppliedInAddOrder ==
    op = "environment" =>
        /\ pc = "env_build" => applyLog = <<>>
        /\ Len(applyLog) <= 2 * Len(components)
        /\ \A j \in DOMAIN applyLog :
               /\ applyLog[j].ev = (IF j % 2 = 1 THEN "begin" ELSE "end")
               /\ (j + 1) \div 2 \in DOMAIN components
               /\ applyLog[j].component = components[(j + 1) \div 2]
        /\ (pc = "done" /\ result = Nil) =>
               Len(applyLog) = 2 * Len(components)

\* the three components of env.go are applied, Run has returned nil
C13_Witness ==
    /\ op = "environment" /\ pc = "done" /\ result = Nil
    /\ components = <<"ethereum", "chainlink-0", "chainlink-1">>
    /\ Len(applyLog) = 6
    /\ applyLog[5] = [ev |-> "begin", component |-> "chainlink-1"]

\* C18: with a timeout above zero, whatever the cluster answers, a call of
\* CheckReady or WaitLogMessages that goes on running eventually returns:
\* WaitForPodBySelectorRunning has returned, and WaitContainersReady too if
\* it was called.
C18_EveryWaitReturns ==
    <>(/\ pc = "done"
       /\ result # ErrNone
       /\ op = "CheckReady" => prResult # ErrNone)

\* a pod that was Pending at every poll, with several polls: the poller
\* returned at its timeout and so did CheckReady
C18_Witness ==
    /\ op = "CheckReady" /\ pc = "done"
    /\ timeout > 0 /\ now = timeout
    /\ observedRunning = {} /\ polls > 2 /\ lastPhase = "Pending"
    /\ result = ErrWaitTimeout

====
